---- MODULE Spec2Model ----
(***************************************************************************)
(* Model of the mobile-cover service (src/app.py): the chroma-key         *)
(* compositing of a user photo into a cover template, the upload request  *)
(* that drives it, and the requests that maintain the model table.        *)
(*                                                                         *)
(* An image is a sequence of rows, a row a sequence of pixels, a pixel a  *)
(* tuple <<b, g, r>> of 8-bit channels (numpy's shape is                  *)
(* <<Len(img), Len(img[1]), 3>>).  A file is a record holding the image   *)
(* its bytes decode to; undecodable bytes decode to None.                 *)
(***************************************************************************)
EXTENDS Integers, Sequences, FiniteSets, TLC

VARIABLES
    call,              \* the locals of one _combine_images invocation (SpecComposite)
    inputs,            \* the two files that invocation is given
    db,                \* the MobileModel table: id -> [model_name, template_filename]
    cover_templates,   \* COVER_TEMPLATES_FOLDER: filename -> file
    uploads,           \* UPLOAD_FOLDER: filename -> file
    generated_covers,  \* GENERATED_COVERS_FOLDER: filename -> file
    now,               \* the clock datetime.utcnow() reads, in ticks
    req                \* per request: its form, position, locals and response

vars == <<call, inputs, db, cover_templates, uploads, generated_covers, now, req>>

compositeVars == <<call, inputs>>
serverVars == <<db, cover_templates, uploads, generated_covers, now, req>>

(***************************************************************************)
(* Bounds of the model.                                                    *)
(***************************************************************************)
MaxTemplatePixels == 3      \* a template has at most this many pixels
MaxPhotoPixels == 2         \* a user photo has at most this many pixels
MaxClock == 2               \* the clock stops after this many ticks
TicksPerSecond == 2         \* clock ticks in one second of the timestamp
MaxId == 2                  \* the model table hands out ids up to this one

(***************************************************************************)
(* Pixels the images are drawn from.  The template pixels sit on both     *)
(* sides of every bound of the chroma range (their HSV value is given).   *)
(***************************************************************************)
TemplatePixels ==
    { <<62, 102, 95>>,      \* H 35, S 100, V 102 : inside, on the lower H and S bounds
      <<0, 100, 0>>,        \* H 60, S 255, V 100 : inside, on the lower V bound
      <<209, 255, 0>>,      \* H 85, S 255, V 255 : inside, on the upper bounds
      <<43, 200, 177>>,     \* H 34, S 200, V 200 : outside by hue
      <<177, 200, 43>>,     \* H 86, S 200, V 200 : outside by hue
      <<156, 255, 156>>,    \* H 60, S 99,  V 255 : outside by saturation
      <<0, 99, 0>> }        \* H 60, S 255, V 99  : outside by value

PhotoPixels == { <<0, 0, 255>>, <<255, 255, 255>> }

None == <<>>

Min(a, b) == IF a < b THEN a ELSE b
Max(a, b) == IF a > b THEN a ELSE b

Shapes(n) == { s \in (1..n) \X (1..n) : s[1] * s[2] <= n }

\* Every image of at most n pixels over the given pixels.
Images(pixels, n) ==
    UNION { [1..s[1] -> [1..s[2] -> pixels]] : s \in Shapes(n) }

Height(img) == Len(img)
Width(img) == Len(img[1])

(***************************************************************************)
(* Files and decoding: cv2.imread returns None for bytes that are no      *)
(* image, and the decoded array otherwise.                                 *)
(***************************************************************************)
ImageFile(img) == [fmt |-> "image", img |-> img]
CorruptFile == [fmt |-> "garbage", img |-> None]

\* A decoder that hands back a black pixel for bytes it cannot decode.
ImreadLenient(file) ==
    IF file.fmt = "image" THEN file.img ELSE << << <<0, 0, 0>> >> >>

Imread(file) == IF file.fmt = "image" THEN file.img ELSE None

(***************************************************************************)
(* cv2.cvtColor(.., COLOR_BGR2HSV) on 8-bit images: V = max, S and H by   *)
(* 12-bit fixed-point division tables, H on the 0..179 scale.             *)
(***************************************************************************)
RoundDiv(n, d) == (2 * n + d) \div (2 * d)
SDivTable(v) == IF v = 0 THEN 0 ELSE RoundDiv(255 * 4096, v)
HDivTable(d) == IF d = 0 THEN 0 ELSE RoundDiv(180 * 4096, 6 * d)

HSVPixel(p) ==
    LET b == p[1]
        g == p[2]
        r == p[3]
        v == Max(b, Max(g, r))
        vmin == Min(b, Min(g, r))
        diff == v - vmin
        s == (diff * SDivTable(v) + 2048) \div 4096
        h0 == IF v = r THEN g - b
              ELSE IF v = g THEN b - r + 2 * diff
              ELSE r - g + 4 * diff
        h1 == (h0 * HDivTable(diff) + 2048) \div 4096
        h == IF h1 < 0 THEN h1 + 180 ELSE h1
    IN  <<h, s, v>>

CvtColorBGR2HSV(img) ==
    [y \in 1..Height(img) |-> [x \in 1..Width(img) |-> HSVPixel(img[y][x])]]

(***************************************************************************)
(* The chroma range and cv2.inRange: 255 where every channel lies within  *)
(* the inclusive bounds, 0 elsewhere.                                      *)
(***************************************************************************)
lower_green == <<35, 100, 100>>
upper_green == <<85, 255, 255>>

\* A range test that looks at the hue alone.
InRangePixelHueOnly(p, lo, hi) ==
    IF lo[1] <= p[1] /\ p[1] <= hi[1] THEN 255 ELSE 0

\* A range test whose bounds are exclusive.
InRangePixelExclusive(p, lo, hi) ==
    IF \A c \in 1..3 : lo[c] < p[c] /\ p[c] < hi[c] THEN 255 ELSE 0

InRangePixel(p, lo, hi) ==
    IF \A c \in 1..3 : lo[c] <= p[c] /\ p[c] <= hi[c] THEN 255 ELSE 0

InRange(img, lo, hi) ==
    [y \in 1..Height(img) |-> [x \in 1..Width(img) |-> InRangePixel(img[y][x], lo, hi)]]

\* An inversion that inverts nothing.
BitwiseNotValueIdentity(m) == m

BitwiseNotValue(m) == 255 - m

BitwiseNot(mask) ==
    [y \in 1..Height(mask) |-> [x \in 1..Width(mask) |-> BitwiseNotValue(mask[y][x])]]

\* cv2.bitwise_and(src, src, mask=mask): src & src where the mask is set,
\* zero elsewhere.
BitwiseAndPixel(p, m) == IF m # 0 THEN p ELSE <<0, 0, 0>>

BitwiseAnd(src, mask) ==
    [y \in 1..Height(src) |-> [x \in 1..Width(src) |-> BitwiseAndPixel(src[y][x], mask[y][x])]]

\* cv2.add: per-channel saturating addition.
AddPixel(p, q) == [c \in 1..3 |-> Min(p[c] + q[c], 255)]

Add(a, b) ==
    [y \in 1..Height(a) |-> [x \in 1..Width(a) |-> AddPixel(a[y][x], b[y][x])]]

(***************************************************************************)
(* cv2.resize(src, (w, h)) with the default INTER_LINEAR on 8-bit images: *)
(* pixel centres aligned, source coordinates clamped at the borders,      *)
(* 11-bit fixed-point coefficients.  Coordinates here are 0-based.        *)
(***************************************************************************)
\* The source index and the coefficient (of 2048) of its right neighbour
\* for destination index d, resizing sn samples to dn.
ResizeTap(d, sn, dn) ==
    LET num == (2 * d + 1) * sn - dn
        den == 2 * dn
        s == num \div den
        f == RoundDiv(2048 * (num - s * den), den)
    IN  IF s < 0 THEN [s0 |-> 0, s1 |-> 0, f |-> 0]
        ELSE IF s >= sn - 1 THEN [s0 |-> sn - 1, s1 |-> sn - 1, f |-> 0]
        ELSE [s0 |-> s, s1 |-> s + 1, f |-> f]

ResizeChannel(src, c, tx, ty) ==
    LET row0 == src[ty.s0 + 1]
        row1 == src[ty.s1 + 1]
        h0 == row0[tx.s0 + 1][c] * (2048 - tx.f) + row0[tx.s1 + 1][c] * tx.f
        h1 == row1[tx.s0 + 1][c] * (2048 - tx.f) + row1[tx.s1 + 1][c] * tx.f
    IN  ((((2048 - ty.f) * (h0 \div 16)) \div 65536)
          + ((ty.f * (h1 \div 16)) \div 65536) + 2) \div 4

\* A resize that leaves the photo at its own size.
ResizeNoStretch(src, w, h) == src

Resize(src, w, h) ==
    [y \in 1..h |-> [x \in 1..w |->
        LET tx == ResizeTap(x - 1, Width(src), w)
            ty == ResizeTap(y - 1, Height(src), h)
        IN  [c \in 1..3 |-> ResizeChannel(src, c, tx, ty)]]]

(***************************************************************************)
(* _combine_images: the locals after the call, or the exception.          *)
(***************************************************************************)
NoCall ==
    [state |-> "ready", cover_template |-> None, user_image |-> None,
     hsv |-> None, mask |-> None, mask_inv |-> None,
     cover_without_green |-> None, user_image_with_green |-> None,
     combined_image |-> None]

SameShape(a, b) == Height(a) = Height(b) /\ Width(a) = Width(b)

CombineImages(user_file, template_file) ==
    LET cover_template == Imread(template_file)
        user_read == Imread(user_file)
    IN  IF cover_template = None \/ user_read = None
        THEN \* line 124 raises: None has no shape, cv2.resize rejects None
             [NoCall EXCEPT !.state = "raised"]
        ELSE LET user_image == Resize(user_read, Width(cover_template),
                                      Height(cover_template))
                 hsv == CvtColorBGR2HSV(cover_template)
                 mask == InRange(hsv, lower_green, upper_green)
                 mask_inv == BitwiseNot(mask)
             IN  IF ~SameShape(user_image, mask)
                 THEN \* cv2.bitwise_and and cv2.add raise on operands of
                      \* different sizes
                      [NoCall EXCEPT !.state = "raised",
                                     !.cover_template = cover_template,
                                     !.user_image = user_image]
                 ELSE LET cover_without_green == BitwiseAnd(cover_template, mask_inv)
                          user_image_with_green == BitwiseAnd(user_image, mask)
                      IN  [state |-> "returned",
                           cover_template |-> cover_template,
                           user_image |-> user_image,
                           hsv |-> hsv, mask |-> mask, mask_inv |-> mask_inv,
                           cover_without_green |-> cover_without_green,
                           user_image_with_green |-> user_image_with_green,
                           combined_image |->
                               Add(cover_without_green, user_image_with_green)]

(***************************************************************************)
(* SpecComposite: one invocation of _combine_images on every pair of      *)
(* files within the bounds.                                                *)
(***************************************************************************)
TemplateFiles ==
    { ImageFile(i) : i \in Images(TemplatePixels, MaxTemplatePixels) } \cup {CorruptFile}

PhotoFiles ==
    { ImageFile(i) : i \in Images(PhotoPixels, MaxPhotoPixels) } \cup {CorruptFile}

EmptyFolder == <<>>
NoInputs == [template |-> CorruptFile, photo |-> CorruptFile]

InitComposite ==
    /\ inputs \in [template : TemplateFiles, photo : PhotoFiles]
    /\ call = NoCall
    /\ db = <<>>
    /\ cover_templates = EmptyFolder
    /\ uploads = EmptyFolder
    /\ generated_covers = EmptyFolder
    /\ now = 0
    /\ req = <<>>

Combine ==
    /\ call.state = "ready"
    /\ call' = CombineImages(inputs.photo, inputs.template)
    /\ UNCHANGED <<inputs, serverVars>>

NextComposite == Combine

SpecComposite == InitComposite /\ [][NextComposite]_vars

(***************************************************************************)
(* Properties of the compositing, checked under SpecComposite.            *)
(***************************************************************************)
\* The chroma range as the specification states it, on an HSV value.
InsideChromaRange(v) ==
    /\ 35 <= v[1] /\ v[1] <= 85
    /\ 100 <= v[2] /\ v[2] <= 255
    /\ 100 <= v[3] /\ v[3] <= 255

Positions(img) == (1..Height(img)) \X (1..Width(img))

\* C1 (pass-through): where the template's HSV value lies outside the chroma
\* range, the composite's pixel is the template's pixel in all three channels.
C1_PassThrough ==
    call.state = "returned" =>
        LET T == inputs.template.img
        IN  \A q \in Positions(T) :
                ~InsideChromaRange(HSVPixel(T[q[1]][q[2]])) =>
                    call.combined_image[q[1]][q[2]] = T[q[1]][q[2]]

\* A composite whose template has a pixel just outside the range by hue
\* (H = 34) beside a pixel inside it, under a photo pixel of another colour.
C1_Witness ==
    /\ call.state = "returned"
    /\ LET T == inputs.template.img
       IN  /\ \E q \in Positions(T) :
                  /\ HSVPixel(T[q[1]][q[2]])[1] = 34
                  /\ call.user_image[q[1]][q[2]] # T[q[1]][q[2]]
                  /\ call.combined_image[q[1]][q[2]] = T[q[1]][q[2]]
           /\ \E q \in Positions(T) : InsideChromaRange(HSVPixel(T[q[1]][q[2]]))

\* C2 (replacement): where the template's HSV value lies inside the inclusive
\* chroma range, the composite's pixel is the pixel of the photo resized to
\* the template's dimensions.
C2_Replacement ==
    call.state = "returned" =>
        LET T == inputs.template.img
            P == Resize(inputs.photo.img, Width(T), Height(T))
        IN  \A q \in Positions(T) :
                InsideChromaRange(HSVPixel(T[q[1]][q[2]])) =>
                    call.combined_image[q[1]][q[2]] = P[q[1]][q[2]]

\* A composite whose template has a pixel on the lower hue and saturation
\* bounds (H = 35, S = 100), replaced by a pixel of a photo of another size.
C2_Witness ==
    /\ call.state = "returned"
    /\ LET T == inputs.template.img
       IN  /\ ~SameShape(inputs.photo.img, T)
           /\ \E q \in Positions(T) :
                  /\ HSVPixel(T[q[1]][q[2]])[1] = 35
                  /\ HSVPixel(T[q[1]][q[2]])[2] = 100
                  /\ call.combined_image[q[1]][q[2]] # T[q[1]][q[2]]
                  /\ call.combined_image[q[1]][q[2]] = call.user_image[q[1]][q[2]]

\* C3 (dimensions): for a decodable template and photo the call returns, and
\* the stretched photo and the composite have the template's width and height.
C3_Dimensions ==
    (/\ call.state # "ready"
     /\ inputs.template.fmt = "image"
     /\ inputs.photo.fmt = "image") =>
        LET T == inputs.template.img
        IN  /\ call.state = "returned"
            /\ Height(call.user_image) = Height(T)
            /\ Width(call.user_image) = Width(T)
            /\ Height(call.combined_image) = Height(T)
            /\ Width(call.combined_image) = Width(T)

\* A composite of a photo that is taller and narrower than the template.
C3_Witness ==
    /\ call.state = "returned"
    /\ Height(inputs.photo.img) > Height(inputs.template.img)
    /\ Width(inputs.photo.img) < Width(inputs.template.img)
    /\ SameShape(call.combined_image, inputs.template.img)

\* C9 (mask disjointness): at every pixel exactly one of mask and mask_inv is
\* set, at most one of the two masked layers is non-zero, the addition of
\* the layers stays below the clamp, and the composite is the select between
\* the resized photo's pixel and the template's pixel.
C9_MaskDisjoint ==
    call.state = "returned" =>
        \A q \in Positions(call.cover_template) :
            LET y == q[1]
                x == q[2]
                kept == call.cover_without_green[y][x]
                inserted == call.user_image_with_green[y][x]
            IN  /\ (call.mask[y][x] # 0) # (call.mask_inv[y][x] # 0)
                /\ kept = <<0, 0, 0>> \/ inserted = <<0, 0, 0>>
                /\ \A c \in 1..3 : kept[c] + inserted[c] <= 255
                /\ call.combined_image[y][x] =
                       IF call.mask[y][x] # 0 THEN call.user_image[y][x]
                       ELSE call.cover_template[y][x]

\* A composite with a pixel taken from each layer, both non-zero.
C9_Witness ==
    /\ call.state = "returned"
    /\ \E q \in Positions(call.cover_template) :
           /\ call.mask[q[1]][q[2]] = 255
           /\ call.user_image_with_green[q[1]][q[2]] # <<0, 0, 0>>
    /\ \E q \in Positions(call.cover_template) :
           /\ call.mask_inv[q[1]][q[2]] = 255
           /\ call.cover_without_green[q[1]][q[2]] # <<0, 0, 0>>

(***************************************************************************)
(* The server's shared state: folders and the model table.                *)
(***************************************************************************)
Exists(folder, name) == name \in DOMAIN folder

\* file.save(path), cv2.imwrite(path, img): create or overwrite.
SaveFile(folder, name, file) ==
    [n \in DOMAIN folder \cup {name} |-> IF n = name THEN file ELSE folder[n]]

NoRecord == [id |-> 0, model_name |-> "", template_filename |-> ""]

\* MobileModel.query.filter_by(model_name=name).first()
QueryByName(table, name) ==
    LET ids == { i \in DOMAIN table : table[i].model_name = name }
    IN  IF ids = {} THEN NoRecord
        ELSE LET i == CHOOSE i \in ids : \A j \in ids : i <= j
             IN  [id |-> i, model_name |-> table[i].model_name,
                  template_filename |-> table[i].template_filename]

\* werkzeug's secure_filename on the file names the clients send.
SecureFilename(name) ==
    CASE name = "../p.png" -> "p.png"
      [] OTHER -> name

\* datetime.utcnow().strftime('%Y%m%d%H%M%S'): the clock cut to whole seconds.
Strftime(t) == t \div TicksPerSecond

\* f"{model_name}_{timestamp}.png": the timestamp has a fixed width, so the
\* name determines the pair and the pair the name.
GeneratedCoverFilename(model_name, timestamp) == <<model_name, timestamp>>

(***************************************************************************)
(* SpecUpload: concurrent POST /upload requests against a stored catalog. *)
(***************************************************************************)
Clients == {"c1", "c2"}

\* A template of one row: a pixel inside the chroma range, one outside.
TwoToneTemplate == ImageFile(<< << <<209, 255, 0>>, <<0, 99, 0>> >> >>)
RedPhoto == ImageFile(<< << <<0, 0, 255>> >> >>)
WhitePhoto == ImageFile(<< << <<255, 255, 255>> >> >>)

UploadModels == {"A", "B", "C"}
ClientFilenames == {"", "p.png", "../p.png"}
UploadPhotos == {RedPhoto, WhitePhoto, CorruptFile}

NoForm == [has_image |-> FALSE, model |-> "", filename |-> "", photo |-> CorruptFile]

UploadForms ==
    {NoForm} \cup
    [has_image : {TRUE}, model : UploadModels, filename : ClientFilenames,
     photo : UploadPhotos]

IdleUpload ==
    [pc |-> "idle", form |-> NoForm, mobile_model |-> NoRecord,
     generated_cover_path |-> <<>>, filepath |-> "", combined_image |-> None,
     status |-> 0, error |-> "", body |-> CorruptFile]

\* The catalog the service starts with, as models.db and the templates
\* folder keep it from earlier requests: model A with its template file
\* (decodable or not), and model B, whose record an update_model pointed to
\* a file that is not in the folder.
StoredCatalog ==
    (1 :> [model_name |-> "A", template_filename |-> "a.png"]) @@
    (2 :> [model_name |-> "B", template_filename |-> "b.png"])

InitUpload ==
    /\ call = NoCall
    /\ inputs = NoInputs
    /\ db = StoredCatalog
    /\ cover_templates \in { ("a.png" :> TwoToneTemplate), ("a.png" :> CorruptFile) }
    /\ uploads = EmptyFolder
    /\ generated_covers = EmptyFolder
    /\ now = 0
    /\ req = [c \in Clients |-> IdleUpload]

Respond(r, status, error) ==
    [r EXCEPT !.pc = "done", !.status = status, !.error = error]

\* upload_image, and _process_image up to the generated cover's path.
UploadImage(c, form) ==
    /\ req[c].pc = "idle"
    /\ LET r == [req[c] EXCEPT !.form = form]
           mobile_model == QueryByName(db, form.model)
       IN  req' = [req EXCEPT ![c] =
               IF ~form.has_image THEN Respond(r, 400, "No image uploaded!")
               ELSE IF mobile_model = NoRecord
                    THEN Respond(r, 400, "Invalid mobile model!")
               ELSE IF form.filename = ""
                    THEN Respond(r, 400, "No selected file!")
               ELSE [r EXCEPT !.pc = "save",
                              !.mobile_model = mobile_model,
                              !.generated_cover_path =
                                  GeneratedCoverFilename(mobile_model.model_name,
                                                         Strftime(now))]]
    /\ UNCHANGED <<compositeVars, db, cover_templates, uploads, generated_covers, now>>

\* image.save(filepath)
SaveUpload(c) ==
    /\ req[c].pc = "save"
    /\ LET filepath == SecureFilename(req[c].form.filename)
       IN  /\ uploads' = SaveFile(uploads, filepath, req[c].form.photo)
           /\ req' = [req EXCEPT ![c].pc = "process", ![c].filepath = filepath]
    /\ UNCHANGED <<compositeVars, db, cover_templates, generated_covers, now>>

\* The template's existence check and the call of _combine_images.
ProcessImage(c) ==
    /\ req[c].pc = "process"
    /\ LET template_path == req[c].mobile_model.template_filename
       IN  IF ~Exists(cover_templates, template_path)
           THEN req' = [req EXCEPT ![c] =
                            Respond(@, 500, "Mobile cover template not found!")]
           ELSE LET frame == CombineImages(uploads[req[c].filepath],
                                           cover_templates[template_path])
                IN  IF frame.state = "raised"
                    THEN req' = [req EXCEPT ![c] =
                                     Respond(@, 500, "Error processing images")]
                    ELSE req' = [req EXCEPT ![c].pc = "imwrite",
                                            ![c].combined_image = frame.combined_image]
    /\ UNCHANGED <<compositeVars, db, cover_templates, uploads, generated_covers, now>>

\* cv2.imwrite(generated_cover_path, combined_image)
Imwrite(c) ==
    /\ req[c].pc = "imwrite"
    /\ generated_covers' = SaveFile(generated_covers, req[c].generated_cover_path,
                                    ImageFile(req[c].combined_image))
    /\ req' = [req EXCEPT ![c].pc = "send"]
    /\ UNCHANGED <<compositeVars, db, cover_templates, uploads, now>>

\* send_file(generated_cover_path)
SendFile(c) ==
    /\ req[c].pc = "send"
    /\ req' = [req EXCEPT ![c].pc = "done", ![c].status = 200,
                          ![c].body = generated_covers[req[c].generated_cover_path]]
    /\ UNCHANGED <<compositeVars, db, cover_templates, uploads, generated_covers, now>>

Tick ==
    /\ now < MaxClock
    /\ now' = now + 1
    /\ UNCHANGED <<compositeVars, db, cover_templates, uploads, generated_covers, req>>

NextUpload ==
    \/ \E c \in Clients, form \in UploadForms : UploadImage(c, form)
    \/ \E c \in Clients : SaveUpload(c)
    \/ \E c \in Clients : ProcessImage(c)
    \/ \E c \in Clients : Imwrite(c)
    \/ \E c \in Clients : SendFile(c)
    \/ Tick

SpecUpload == InitUpload /\ [][NextUpload]_vars

(***************************************************************************)
(* Properties of the upload request, checked under SpecUpload.            *)
(***************************************************************************)
TemplatePath(c) == req[c].mobile_model.template_filename

\* C4 (decode failure): when the template file or the uploaded file that
\* _combine_images reads is no image, the call raises before it computes
\* anything, the request answers with an error and no body, and the
\* generated-covers folder is left as it was; a request writes a generated
\* cover only when its call returned a composite.
C4_DecodeFailure ==
    [][/\ \A c \in Clients :
           (/\ ProcessImage(c)
            /\ Exists(cover_templates, TemplatePath(c))
            /\ \/ cover_templates[TemplatePath(c)].fmt # "image"
               \/ uploads[req[c].filepath].fmt # "image")
           => LET frame == CombineImages(uploads[req[c].filepath],
                                         cover_templates[TemplatePath(c)])
              IN  /\ frame.state = "raised"
                  /\ frame.hsv = None /\ frame.mask = None
                  /\ frame.combined_image = None
                  /\ req'[c].pc = "done"
                  /\ req'[c].status = 500
                  /\ req'[c].combined_image = None
                  /\ req'[c].body = CorruptFile
                  /\ generated_covers' = generated_covers
       /\ \A c \in Clients : Imwrite(c) => req[c].combined_image # None]_vars

\* A request that uploaded undecodable bytes for a model whose template
\* decodes, answered with the processing error, nothing written.
C4_Witness ==
    \E c \in Clients :
        /\ req[c].pc = "done"
        /\ req[c].error = "Error processing images"
        /\ req[c].status = 500
        /\ req[c].form.photo = CorruptFile
        /\ uploads[req[c].filepath] = CorruptFile
        /\ cover_templates[TemplatePath(c)] = TwoToneTemplate
        /\ generated_covers = EmptyFolder

\* C5 (unique output filenames): two requests never write their generated
\* cover under the same path.
C5_UniquePaths ==
    \A c1, c2 \in Clients :
        (/\ c1 # c2
         /\ req[c1].generated_cover_path # <<>>
         /\ req[c2].generated_cover_path # <<>>)
        => req[c1].generated_cover_path # req[c2].generated_cover_path

\* C6 (independence): the cover a request returns is the composite of its
\* own photo with the template of its own model.
C6_Independent ==
    \A c \in Clients :
        (req[c].pc = "done" /\ req[c].status = 200) =>
            req[c].body =
                ImageFile(CombineImages(req[c].form.photo,
                                        cover_templates[TemplatePath(c)]).combined_image)

\* C8 (validation against processing failures): a request rejected for an
\* outer-layer reason never carries the status of a request whose
\* compositing failed.
C8_Distinguishable ==
    \A c1, c2 \in Clients :
        (/\ req[c1].pc = "done"
         /\ req[c1].error \in {"No image uploaded!", "Invalid mobile model!",
                               "Mobile cover template not found!"}
         /\ req[c2].pc = "done"
         /\ req[c2].error = "Error processing images")
        => req[c1].status # req[c2].status

(***************************************************************************)
(* SpecModels: concurrent add_model, update_model and delete_model        *)
(* requests, each client sending one request after another.               *)
(***************************************************************************)
ModelNames == {"A", "B"}
TemplateFilenames == {"t1.png"}
TemplateUploads == {TwoToneTemplate, CorruptFile}

NoModelForm ==
    [has_fields |-> FALSE, model_id |-> 0, model_name |-> "",
     template_filename |-> "", file |-> CorruptFile]

AddForms ==
    {NoModelForm} \cup
    [has_fields : {TRUE}, model_id : {0}, model_name : ModelNames,
     template_filename : TemplateFilenames, file : TemplateUploads]

UpdateForms ==
    [has_fields : {TRUE}, model_id : 1..MaxId, model_name : ModelNames \cup {""},
     template_filename : {"", "t2.png"}, file : {CorruptFile}]

DeleteForms ==
    [has_fields : {TRUE}, model_id : 1..MaxId, model_name : {""},
     template_filename : {""}, file : {CorruptFile}]

\* changed_folder and changed_referenced record what the request's own
\* template_file.save did: whether it changed the folder, and whether it
\* changed the file a record of the table referred to.
IdleModelRequest ==
    [pc |-> "idle", kind |-> "", form |-> NoModelForm, model |-> NoRecord,
     status |-> 0, error |-> "",
     changed_folder |-> FALSE, changed_referenced |-> FALSE]

InitModels ==
    /\ call = NoCall
    /\ inputs = NoInputs
    /\ db = <<>>
    /\ cover_templates = EmptyFolder
    /\ uploads = EmptyFolder
    /\ generated_covers = EmptyFolder
    /\ now = 0
    /\ req = [c \in Clients |-> IdleModelRequest]

Received(c, kind, form) ==
    [IdleModelRequest EXCEPT !.kind = kind, !.form = form]

\* The response of a model request; the request's form and locals are
\* gone with it.
Finish(r, status, error) ==
    [IdleModelRequest EXCEPT !.pc = "done", !.kind = r.kind,
                             !.status = status, !.error = error,
                             !.changed_folder = r.changed_folder,
                             !.changed_referenced = r.changed_referenced]

\* MobileModel.query.get(model_id)
QueryGet(table, id) ==
    IF id \in DOMAIN table
    THEN [id |-> id, model_name |-> table[id].model_name,
          template_filename |-> table[id].template_filename]
    ELSE NoRecord

\* A table without the constraint.
UniqueViolationNever(table, id, name) == FALSE

\* The unique=True constraint on model_name: another row holds the name.
UniqueViolation(table, id, name) ==
    \E j \in DOMAIN table : j # id /\ table[j].model_name = name

\* The id SQLite gives a new row: one more than the largest in the table.
NextId(table) ==
    IF DOMAIN table = {} THEN 1
    ELSE (CHOOSE i \in DOMAIN table : \A j \in DOMAIN table : j <= i) + 1

Adding == { c \in Clients : req[c].pc \in {"save", "commit_add"} }

\* add_model up to the check of the name (lines 170-179).
AddModel(c, form) ==
    /\ req[c].pc \in {"idle", "done"}
    /\ NextId(db) + Cardinality(Adding) <= MaxId
    /\ LET r == Received(c, "add_model", form)
       IN  req' = [req EXCEPT ![c] =
               IF ~form.has_fields
               THEN Finish(r, 400, "Model name and template file are required")
               ELSE IF QueryByName(db, form.model_name) # NoRecord
                    THEN Finish(r, 400, "Model already exists")
               ELSE [r EXCEPT !.pc = "save"]]
    /\ UNCHANGED <<compositeVars, db, cover_templates, uploads, generated_covers, now>>

\* template_file.save(template_filepath) (lines 182-184)
SaveTemplate(c) ==
    /\ req[c].pc = "save"
    /\ LET filename == SecureFilename(req[c].form.template_filename)
           saved == SaveFile(cover_templates, filename, req[c].form.file)
       IN  /\ cover_templates' = saved
           /\ req' = [req EXCEPT
                  ![c].pc = "commit_add",
                  ![c].changed_folder = (saved # cover_templates),
                  ![c].changed_referenced =
                      /\ Exists(cover_templates, filename)
                      /\ cover_templates[filename] # req[c].form.file
                      /\ \E i \in DOMAIN db : db[i].template_filename = filename]
    /\ UNCHANGED <<compositeVars, db, uploads, generated_covers, now>>

\* db.session.add(new_model); db.session.commit() (lines 187-191).  A
\* violated constraint raises, and handle_exception answers 500.
CommitAdd(c) ==
    /\ req[c].pc = "commit_add"
    /\ LET id == NextId(db)
           name == req[c].form.model_name
       IN  IF UniqueViolation(db, id, name)
           THEN /\ req' = [req EXCEPT ![c] = Finish(@, 500, "IntegrityError")]
                /\ UNCHANGED db
           ELSE /\ db' = (id :> [model_name |-> name,
                                 template_filename |->
                                     SecureFilename(req[c].form.template_filename)])
                          @@ db
                /\ req' = [req EXCEPT ![c] = Finish(@, 201, "")]
    /\ UNCHANGED <<compositeVars, cover_templates, uploads, generated_covers, now>>

\* update_model up to the lookup of the record (lines 194-200); a request
\* without a model_name skips the check of the name.
UpdateModel(c, form) ==
    /\ req[c].pc \in {"idle", "done"}
    /\ LET r == Received(c, "update_model", form)
           model == QueryGet(db, form.model_id)
       IN  req' = [req EXCEPT ![c] =
               IF model = NoRecord THEN Finish(r, 404, "Model not found")
               ELSE [r EXCEPT !.model = model,
                              !.pc = IF form.model_name # "" THEN "check"
                                     ELSE "commit_update"]]
    /\ UNCHANGED <<compositeVars, db, cover_templates, uploads, generated_covers, now>>

\* The check of the new name (lines 202-206).
CheckName(c) ==
    /\ req[c].pc = "check"
    /\ LET existing_model == QueryByName(db, req[c].form.model_name)
       IN  req' = [req EXCEPT ![c] =
               IF existing_model # NoRecord /\ existing_model.id # req[c].form.model_id
               THEN Finish(@, 400, "Model name already exists")
               ELSE [@ EXCEPT !.pc = "commit_update"]]
    /\ UNCHANGED <<compositeVars, db, cover_templates, uploads, generated_covers, now>>

\* The columns the session writes: those assigned a value other than the
\* one loaded (lines 206 and 209).
NewModelName(r) ==
    IF r.form.model_name # "" THEN r.form.model_name ELSE r.model.model_name

NewTemplateFilename(r) ==
    IF r.form.template_filename # "" THEN r.form.template_filename
    ELSE r.model.template_filename

\* db.session.commit() of update_model (lines 211-213): an UPDATE of the
\* changed columns of the row; it raises when the row is gone or the
\* constraint is violated, and handle_exception answers 500.
CommitUpdate(c) ==
    /\ req[c].pc = "commit_update"
    /\ LET r == req[c]
           id == r.model.id
           name_changed == NewModelName(r) # r.model.model_name
           file_changed == NewTemplateFilename(r) # r.model.template_filename
       IN  IF ~name_changed /\ ~file_changed
           THEN /\ req' = [req EXCEPT ![c] = Finish(@, 200, "")]
                /\ UNCHANGED db
           ELSE IF id \notin DOMAIN db
           THEN /\ req' = [req EXCEPT ![c] = Finish(@, 500, "StaleDataError")]
                /\ UNCHANGED db
           ELSE IF name_changed /\ UniqueViolation(db, id, NewModelName(r))
           THEN /\ req' = [req EXCEPT ![c] = Finish(@, 500, "IntegrityError")]
                /\ UNCHANGED db
           ELSE /\ db' = [db EXCEPT ![id] =
                           [model_name |-> IF name_changed THEN NewModelName(r)
                                           ELSE @.model_name,
                            template_filename |->
                                IF file_changed THEN NewTemplateFilename(r)
                                ELSE @.template_filename]]
                /\ req' = [req EXCEPT ![c] = Finish(@, 200, "")]
    /\ UNCHANGED <<compositeVars, cover_templates, uploads, generated_covers, now>>

\* delete_model up to the lookup of the record (lines 216-218).
DeleteModel(c, form) ==
    /\ req[c].pc \in {"idle", "done"}
    /\ LET r == Received(c, "delete_model", form)
           model == QueryGet(db, form.model_id)
       IN  req' = [req EXCEPT ![c] =
               IF model = NoRecord THEN Finish(r, 404, "Model not found")
               ELSE [r EXCEPT !.model = model, !.pc = "commit_delete"]]
    /\ UNCHANGED <<compositeVars, db, cover_templates, uploads, generated_covers, now>>

\* db.session.delete(model); db.session.commit() (lines 220-223)
CommitDelete(c) ==
    /\ req[c].pc = "commit_delete"
    /\ db' = [i \in DOMAIN db \ {req[c].model.id} |-> db[i]]
    /\ req' = [req EXCEPT ![c] = Finish(@, 200, "")]
    /\ UNCHANGED <<compositeVars, cover_templates, uploads, generated_covers, now>>

NextModels ==
    \/ \E c \in Clients, form \in AddForms : AddModel(c, form)
    \/ \E c \in Clients : SaveTemplate(c)
    \/ \E c \in Clients : CommitAdd(c)
    \/ \E c \in Clients, form \in UpdateForms : UpdateModel(c, form)
    \/ \E c \in Clients : CheckName(c)
    \/ \E c \in Clients : CommitUpdate(c)
    \/ \E c \in Clients, form \in DeleteForms : DeleteModel(c, form)
    \/ \E c \in Clients : CommitDelete(c)

SpecModels == InitModels /\ [][NextModels]_vars

(***************************************************************************)
(* Properties of the model table, checked under SpecModels.               *)
(***************************************************************************)
UniqueNames(table) ==
    \A i, j \in DOMAIN table : i # j => table[i].model_name # table[j].model_name

\* A record other than id holds the name.
HeldByOther(table, id, name) ==
    \E j \in DOMAIN table : j # id /\ table[j].model_name = name

\* C7 (model-name uniqueness): after every step no two records share a
\* model_name; an add_model whose name is taken, at its check or at its
\* commit, and an update_model that renames its record to the name of
\* another record, at its check or at its commit, are rejected and leave the
\* table as it was.
C7_UniqueModelNames ==
    [][/\ UniqueNames(db')
       /\ \A c \in Clients :
            /\ \A form \in AddForms :
                 (/\ form.has_fields
                  /\ HeldByOther(db, 0, form.model_name)
                  /\ req'[c].kind = "add_model"
                  /\ AddModel(c, form))
                 => req'[c].pc = "done" /\ req'[c].status = 400 /\ db' = db
            /\ (CommitAdd(c) /\ HeldByOther(db, 0, req[c].form.model_name))
                 => req'[c].pc = "done" /\ req'[c].status = 500 /\ db' = db
            /\ (CheckName(c)
                /\ HeldByOther(db, req[c].form.model_id, req[c].form.model_name))
                 => req'[c].pc = "done" /\ req'[c].status = 400 /\ db' = db
            /\ (/\ CommitUpdate(c)
                /\ req[c].form.model_name # ""
                /\ req[c].form.model_name # req[c].model.model_name
                /\ HeldByOther(db, req[c].form.model_id, req[c].form.model_name))
                 => req'[c].pc = "done" /\ req'[c].status = 500 /\ db' = db
      ]_vars

\* Two records in the table, one request rejected by the constraint at its
\* commit, another rejected by the check of update_model.
C7_Witness ==
    /\ Cardinality(DOMAIN db) = 2
    /\ \E c1, c2 \in Clients :
           /\ req[c1].pc = "done" /\ req[c1].error = "IntegrityError"
           /\ req[c2].pc = "done" /\ req[c2].error = "Model name already exists"

\* C10 (failed add_model and the templates): an add_model that creates no
\* record leaves the cover-templates folder unchanged, and one that creates
\* a record has not changed the file another record refers to.
C10_FailedAddKeepsTemplates ==
    \A c \in Clients :
        (req[c].pc = "done" /\ req[c].kind = "add_model") =>
            /\ req[c].status # 201 => ~req[c].changed_folder
            /\ req[c].status = 201 => ~req[c].changed_referenced

====
